---- MODULE Spec2Model ----
(***************************************************************************)
(* Hybrid OCR strategy (HybridOcrStrategy.ts) with its receipt classifier  *)
(* (SimpleReceiptDetector.ts).  One strategy object is shared by several   *)
(* extractReceipt calls, which interleave at their await points.           *)
(*                                                                         *)
(* Units.  Confidence, brightness and text density are reals in [0,1] in   *)
(* the source; here they are integers in units of 1/10000.  Costs are in  *)
(* hundredths of a Baht (0.05 -> 5, 0.50 -> 50).  Rates are exact          *)
(* fractions <<numerator, denominator>> in lowest terms.  The wall-clock   *)
(* duration of an attempt is read by nothing and is left out.  Products    *)
(* of the confidence score are truncated to the unit; the images and       *)
(* thresholds used keep every comparison at least one unit away from a     *)
(* rounding boundary, except confidence = threshold = 0.85, where the      *)
(* double-precision sum 0.8500000000000001 >= 0.85 agrees with the exact   *)
(* comparison.                                                             *)
(***************************************************************************)
EXTENDS Integers, Sequences, FiniteSets, TLC

\* ------------------------------------------------------------------ bounds
MaxCalls == 2
MaxResets == 1

\* The extractReceipt calls made on the strategy, numbered in the order they start
CallIds == 1..MaxCalls

\* --------------------------------------------------------------- constants
One == 10000
GroqCost == 5
ClaudeCost == 50
ClaudeOnlyUnitCost == 50
ReviewThreshold == 9500
DefaultSimpleConfidenceThreshold == 8500
BrightnessThreshold == 6000
FadingBrightness == 5000
MockTextDensity == 7000
BrightnessDivisor == 100000

VARIABLES config, metrics, attempts, calls, started, completed, resets,
          batch, caller, det, console, lent, groqCall, claudeFactory

\* The strategy and the calls made on it
strategy == <<config, metrics, attempts, calls, started, completed, resets>>

\* batch: the images of the calls made so far, in order (kept where calls are
\* made one after the other); caller: the metrics object a caller got from
\* getMetrics; det: a feature snapshot handed to the detector and its verdict.
\* console: what printMetrics last wrote; lent: the array a caller got from
\* getAttempts and the result it got from extractReceipt; groqCall: a call of
\* GroqTextAdapter.parseReceiptText; claudeFactory: a call of
\* createClaudeAdapter and the adapter it made.
rest == <<console, lent, groqCall, claudeFactory>>

aux == <<batch, caller, det, rest>>

vars == <<config, metrics, attempts, calls, started, completed, resets,
          batch, caller, det, console, lent, groqCall, claudeFactory>>

\* ----------------------------------------------------------------- helpers
Min(a, b) == IF a <= b THEN a ELSE b

RECURSIVE Gcd(_, _)
Gcd(a, b) == IF b = 0 THEN a ELSE Gcd(b, a % b)

\* n / d as a fraction in lowest terms (d > 0, n >= 0)
Frac(n, d) == LET g == Gcd(n, d) IN <<n \div g, d \div g>>

Zero == <<0, 1>>

\* ---------------------------------------------------- SimpleReceiptDetector
\* Images handed to extractReceipt: a base64 string, of which the detector
\* reads only the length.
Images ==
    { [name |-> "clear",   len |-> 30],
      [name |-> "data",    len |-> 70000],
      [name |-> "7eleven", len |-> 85000] }

detectStandardFormat(image) == TRUE

extractFeatures(image) ==
    LET brightness == (Min(image.len, BrightnessDivisor) * One) \div BrightnessDivisor
    IN  [ brightness        |-> brightness,
          textDensity       |-> MockTextDensity,
          hasStandardFormat |-> detectStandardFormat(image),
          hasHandwriting    |-> FALSE,
          hasFading         |-> brightness < FadingBrightness ]

\* Mutant: the fading flag is not looked at
evaluateSimplicityIgnoresFading(f) ==
    /\ f.brightness > BrightnessThreshold
    /\ f.hasStandardFormat
    /\ ~f.hasHandwriting

evaluateSimplicity(f) ==
    /\ f.brightness > BrightnessThreshold
    /\ f.hasStandardFormat
    /\ ~f.hasHandwriting
    /\ ~f.hasFading

\* Mutant: the fading penalty is 0.5 like the handwriting one
calculateConfidenceFadingHalves(f) ==
    LET raw == (f.brightness * 4 + f.textDensity * 3
                    + (IF f.hasStandardFormat THEN One ELSE 0) * 3) \div 10
        hw  == IF f.hasHandwriting THEN (raw * 5) \div 10 ELSE raw
        fd  == IF f.hasFading THEN (hw * 5) \div 10 ELSE hw
    IN  Min(fd, One)

calculateConfidence(f) ==
    LET raw == (f.brightness * 4 + f.textDensity * 3
                    + (IF f.hasStandardFormat THEN One ELSE 0) * 3) \div 10
        hw  == IF f.hasHandwriting THEN (raw * 5) \div 10 ELSE raw
        fd  == IF f.hasFading THEN (hw * 7) \div 10 ELSE hw
    IN  Min(fd, One)

\* The mock strings of the integration test, 'mock-image-<i>': the second
\* '-'-separated part is the name, the length is 12.
MockImages == { [name |-> "image", len |-> 12] }

\* imageName.includes(marker), for the names above: none of them contains a
\* marker as a proper part.
NameIncludes(name, marker) == name = marker

\* extractFeatures of the detector variant that reads the image's name
extractFeaturesByName(image) ==
    LET highQuality == NameIncludes(image.name, "7eleven")
                          \/ NameIncludes(image.name, "tesco")
        lowQuality  == NameIncludes(image.name, "handwritten")
                          \/ NameIncludes(image.name, "faded")
    IN  [ brightness        |-> IF highQuality THEN 8500
                                ELSE IF lowQuality THEN 4000 ELSE 7000,
          textDensity       |-> MockTextDensity,
          hasStandardFormat |-> highQuality,
          hasHandwriting    |-> NameIncludes(image.name, "handwritten"),
          hasFading         |-> NameIncludes(image.name, "faded") ]

\* generateReason: the fixed text for a simple receipt, else the text for a
\* complex one around the list of reasons pushed
generateReason(f, isSimple) ==
    IF isSimple
    THEN [ text |-> "Clear, standard format receipt - suitable for Groq parsing",
           reasons |-> <<>> ]
    ELSE [ text |-> "Complex receipt (...) - using Claude Vision",
           reasons |->
               (IF f.brightness < BrightnessThreshold
                THEN <<"low brightness">> ELSE <<>>)
               \o (IF ~f.hasStandardFormat THEN <<"non-standard format">> ELSE <<>>)
               \o (IF f.hasHandwriting THEN <<"handwritten">> ELSE <<>>)
               \o (IF f.hasFading THEN <<"faded text">> ELSE <<>>) ]

\* classify, from the point where the features are known
classifyFeatures(f) ==
    [ isSimple   |-> evaluateSimplicity(f),
      confidence |-> calculateConfidence(f),
      reason     |-> generateReason(f, evaluateSimplicity(f)),
      features   |-> f ]

classify(image) == classifyFeatures(extractFeatures(image))

classifyByName(image) == classifyFeatures(extractFeaturesByName(image))

\* ------------------------------------------------------------ the providers
\* What a provider call can settle with.  A result may carry no confidence
\* (OcrResult.confidence is optional).
GroqResults ==
    { [src |-> "groq", amountSatang |-> 8560, confidence |-> 8800],
      [src |-> "groq", amountSatang |-> 8560, confidence |-> 9700] }

ClaudeResults ==
    { [src |-> "claude", amountSatang |-> 35000, confidence |-> 9500],
      [src |-> "claude", amountSatang |-> 35000] }

GroqErrors == { [src |-> "groq", message |-> "Groq parsing failed"] }

ClaudeErrors == { [src |-> "claude", message |-> "Claude API error"] }

\* ------------------------------------------------------------------ metrics
initMetrics ==
    [ totalReceipts       |-> 0,
      simpleCount         |-> 0,
      complexCount        |-> 0,
      groqSuccessRate     |-> Zero,
      claudeFallbackRate  |-> 0,
      totalCost           |-> 0,
      avgCostPerReceipt   |-> Zero,
      savingsVsClaudeOnly |-> 0,
      manualReviewRate    |-> Zero ]

ConfidenceOrZero(r) == IF "confidence" \in DOMAIN r THEN r.confidence ELSE 0

IsGroq(a) == a.provider = "groq"

IsGroqSuccess(a) == a.provider = "groq" /\ a.success

IsLowConfidence(a) ==
    "result" \in DOMAIN a /\ ConfidenceOrZero(a.result) < ReviewThreshold

\* Mutant: the Groq success rate taken over all attempts, not the Groq ones
updateMetricsOverAllAttempts(m, att) ==
    LET groqSuccess  == Len(SelectSeq(att, IsGroqSuccess))
        lowConfidenceCount == Len(SelectSeq(att, IsLowConfidence))
    IN  [ m EXCEPT
            !.groqSuccessRate =
                IF Len(att) > 0 THEN Frac(groqSuccess, Len(att)) ELSE Zero,
            !.avgCostPerReceipt =
                IF m.totalReceipts > 0 THEN Frac(m.totalCost, m.totalReceipts) ELSE Zero,
            !.savingsVsClaudeOnly = m.totalReceipts * ClaudeOnlyUnitCost - m.totalCost,
            !.manualReviewRate =
                IF m.totalReceipts > 0
                THEN Frac(lowConfidenceCount, m.totalReceipts) ELSE Zero ]

\* updateMetrics over the history att and the counters of m
updateMetrics(m, att) ==
    LET groqAttempts == Len(SelectSeq(att, IsGroq))
        groqSuccess  == Len(SelectSeq(att, IsGroqSuccess))
        lowConfidenceCount == Len(SelectSeq(att, IsLowConfidence))
    IN  [ m EXCEPT
            !.groqSuccessRate =
                IF groqAttempts > 0 THEN Frac(groqSuccess, groqAttempts) ELSE Zero,
            !.avgCostPerReceipt =
                IF m.totalReceipts > 0 THEN Frac(m.totalCost, m.totalReceipts) ELSE Zero,
            !.savingsVsClaudeOnly = m.totalReceipts * ClaudeOnlyUnitCost - m.totalCost,
            !.manualReviewRate =
                IF m.totalReceipts > 0
                THEN Frac(lowConfidenceCount, m.totalReceipts) ELSE Zero ]

\* Mutant: the history keeps only the latest attempt
recordAttemptKeepsLatest(m, att, attempt) ==
    IF ~config.enableMetrics
    THEN <<m, att>>
    ELSE LET att2 == <<attempt>>
             m2   == [ m EXCEPT !.totalReceipts = @ + 1,
                                !.totalCost = @ + attempt.cost ]
         IN  <<updateMetrics(m2, att2), att2>>

\* Mutant: the cost of the attempt overwrites the running total
recordAttemptOverwritesCost(m, att, attempt) ==
    IF ~config.enableMetrics
    THEN <<m, att>>
    ELSE LET att2 == Append(att, attempt)
             m2   == [ m EXCEPT !.totalReceipts = @ + 1,
                                !.totalCost = attempt.cost ]
         IN  <<updateMetrics(m2, att2), att2>>

\* recordAttempt: the pair <<metrics, attempts>> after the call
recordAttempt(m, att, attempt) ==
    IF ~config.enableMetrics
    THEN <<m, att>>
    ELSE LET att2 == Append(att, attempt)
             m2   == [ m EXCEPT !.totalReceipts = @ + 1,
                                !.totalCost = @ + attempt.cost ]
         IN  <<updateMetrics(m2, att2), att2>>

\* What recordAttempt adds to the calling request's own record of attempts
Recorded(attempt) == IF config.enableMetrics THEN <<attempt>> ELSE <<>>

\* ------------------------------------------------------------------- state
IdleCall ==
    [ pc |-> "idle", invoked |-> <<>>, log |-> <<>> ]

Configs ==
    [ simpleConfidenceThreshold : {3000, DefaultSimpleConfidenceThreshold},
      enableFallback : BOOLEAN,
      maxGroqRetries : {1},
      enableMetrics : BOOLEAN ]

DefaultConfig ==
    [ simpleConfidenceThreshold |-> DefaultSimpleConfidenceThreshold,
      enableFallback |-> TRUE,
      maxGroqRetries |-> 1,
      enableMetrics |-> TRUE ]

NoSnapshot == [held |-> FALSE]

NoOutput == [printed |-> FALSE]

NothingLent == [held |-> FALSE]

NoGroqCall == [phase |-> "none"]

NoFactoryCall == [phase |-> "none"]

\* Nothing printed, nothing lent out, no adapter in use
RestIdle ==
    /\ console = NoOutput
    /\ lent = NothingLent
    /\ groqCall = NoGroqCall
    /\ claudeFactory = NoFactoryCall

NoFeatures == [phase |-> "none"]

\* The strategy as its constructor leaves it, under configuration c
Constructed(c) ==
    /\ config = c
    /\ metrics = initMetrics
    /\ attempts = <<>>
    /\ calls = [s \in CallIds |-> IdleCall]
    /\ started = 0
    /\ completed = 0
    /\ resets = 0

Init ==
    /\ \E c \in Configs : Constructed(c)
    /\ batch = <<>>
    /\ caller = NoSnapshot
    /\ det = NoFeatures
    /\ RestIdle

\* ---------------------------------------------------------- extractReceipt
\* Mutant: the threshold compared with > instead of >=
RoutesToGroqStrict(c) ==
    c.isSimple /\ c.confidence > config.simpleConfidenceThreshold

\* The routing test of extractReceipt, on the verdict c
RoutesToGroq(c) ==
    c.isSimple /\ c.confidence >= config.simpleConfidenceThreshold

\* Mutant: the catch branch falls back whatever enableFallback says
ShouldFallbackAlways == TRUE

\* Mutant: the catch branch always rethrows the Groq error
ShouldFallbackNever == FALSE

\* The catch branch's decision to fall back to Claude
ShouldFallback == config.enableFallback

\* Mutant: the catch branch swallows the fallback's error and rethrows its own
FallbackFailureRethrowsCaught(caught, e) == caught

\* The error that leaves processSimpleReceipt when the fallback call throws e
\* after the Groq error caught was caught
FallbackFailure(caught, e) == e

\* Mutant: the successful Groq attempt is recorded without its result
GroqSuccessAttemptNoResult(r) ==
    [provider |-> "groq", success |-> TRUE, cost |-> GroqCost]

GroqSuccessAttempt(r) ==
    [provider |-> "groq", success |-> TRUE, cost |-> GroqCost, result |-> r]

\* Mutant: the failed Groq attempt is recorded without the error message
GroqFailedAttemptNoError(e) ==
    [provider |-> "groq", success |-> FALSE, cost |-> 0]

GroqFailedAttempt(e) ==
    [provider |-> "groq", success |-> FALSE, cost |-> 0, error |-> e.message]

ClaudeSuccessAttempt(r) ==
    [provider |-> "claude", success |-> TRUE, cost |-> ClaudeCost, result |-> r]

\* A caller invokes extractReceipt(input); the call runs up to its first await.
ExtractReceipt(s, image) ==
    /\ calls[s].pc = "idle"
    /\ s = started + 1
    /\ started' = started + 1
    /\ calls' = [calls EXCEPT ![s] =
                    [pc |-> "classify", image |-> image,
                     invoked |-> <<>>, log |-> <<>>]]
    /\ UNCHANGED <<config, metrics, attempts, completed, resets>>

\* classifyReceipt resolves; the call is routed and runs the synchronous head
\* of processSimpleReceipt or processComplexReceipt up to the provider call.
Route(s) ==
    /\ calls[s].pc = "classify"
    /\ LET c == classify(calls[s].image)
       IN  IF RoutesToGroq(c)
           THEN /\ metrics' = [metrics EXCEPT !.simpleCount = @ + 1]
                /\ calls' = [calls EXCEPT ![s] =
                                [pc |-> "groq",
                                 invoked |-> <<"groq">>, log |-> <<>>]]
           ELSE /\ metrics' = [metrics EXCEPT !.complexCount = @ + 1]
                /\ calls' = [calls EXCEPT ![s] =
                                [pc |-> "claude",
                                 invoked |-> <<"claude">>, log |-> <<>>]]
    /\ UNCHANGED <<config, attempts, started, completed, resets>>

\* groqAdapter.parseReceiptText resolves with r
GroqReturns(s, r) ==
    /\ calls[s].pc = "groq"
    /\ LET a   == GroqSuccessAttempt(r)
           rec == recordAttempt(metrics, attempts, a)
       IN  /\ metrics' = rec[1]
           /\ attempts' = rec[2]
           /\ calls' = [calls EXCEPT ![s] =
                           [pc |-> "returned", invoked |-> calls[s].invoked,
                            log |-> calls[s].log \o Recorded(a),
                            ret |-> r]]
    /\ completed' = completed + 1
    /\ UNCHANGED <<config, started, resets>>

\* groqAdapter.parseReceiptText rejects with e: the catch branch
GroqThrows(s, e) ==
    /\ calls[s].pc = "groq"
    /\ LET a   == GroqFailedAttempt(e)
           rec == recordAttempt(metrics, attempts, a)
       IN  /\ attempts' = rec[2]
           /\ IF ShouldFallback
              THEN /\ metrics' = [rec[1] EXCEPT !.claudeFallbackRate = @ + 1,
                                                !.complexCount = @ + 1]
                   /\ calls' = [calls EXCEPT ![s] =
                                   [pc |-> "claude", invoked |-> Append(calls[s].invoked, "claude"),
                                    log |-> calls[s].log \o Recorded(a),
                                    caught |-> e]]
                   /\ completed' = completed
              ELSE /\ metrics' = rec[1]
                   /\ calls' = [calls EXCEPT ![s] =
                                   [pc |-> "threw", invoked |-> calls[s].invoked,
                                    log |-> calls[s].log \o Recorded(a),
                                    err |-> e]]
                   /\ completed' = completed + 1
    /\ UNCHANGED <<config, started, resets>>

\* claudeAdapter.extractReceiptFromImage resolves with r
ClaudeReturns(s, r) ==
    /\ calls[s].pc = "claude"
    /\ LET a   == ClaudeSuccessAttempt(r)
           rec == recordAttempt(metrics, attempts, a)
       IN  /\ metrics' = rec[1]
           /\ attempts' = rec[2]
           /\ calls' = [calls EXCEPT ![s] =
                           [pc |-> "returned", invoked |-> calls[s].invoked,
                            log |-> calls[s].log \o Recorded(a),
                            ret |-> r]]
    /\ completed' = completed + 1
    /\ UNCHANGED <<config, started, resets>>

\* Mutant: a rejected Claude call sends the request back to Groq
ClaudeThrowsRetriesGroq(s, e) ==
    /\ calls[s].pc = "claude"
    /\ Len(calls[s].invoked) < 4
    /\ calls' = [calls EXCEPT ![s] =
                    [pc |-> "groq", invoked |-> Append(calls[s].invoked, "groq"),
                     log |-> calls[s].log]]
    /\ UNCHANGED <<config, metrics, attempts, started, completed, resets>>

\* claudeAdapter.extractReceiptFromImage rejects with e: processComplexReceipt
\* has no catch, so the rejection leaves extractReceipt with nothing recorded.
ClaudeThrows(s, e) ==
    /\ calls[s].pc = "claude"
    /\ calls' = [calls EXCEPT ![s] =
                    [pc |-> "threw", invoked |-> calls[s].invoked,
                     log |-> calls[s].log,
                     err |-> IF Len(calls[s].invoked) = 2
                             THEN FallbackFailure(calls[s].caught, e)
                             ELSE e]]
    /\ completed' = completed + 1
    /\ UNCHANGED <<config, metrics, attempts, started, resets>>

\* Mutant: the reset forgets to clear the attempt history
resetMetricsKeepsHistory ==
    /\ resets < MaxResets
    /\ resets' = resets + 1
    /\ metrics' = initMetrics
    /\ attempts' = attempts
    /\ completed' = 0
    /\ UNCHANGED <<config, calls, started>>

resetMetrics ==
    /\ resets < MaxResets
    /\ resets' = resets + 1
    /\ metrics' = initMetrics
    /\ attempts' = <<>>
    /\ completed' = 0
    /\ UNCHANGED <<config, calls, started>>

Next ==
    \/ \E s \in CallIds, image \in Images :
            ExtractReceipt(s, image) /\ UNCHANGED aux
    \/ \E s \in CallIds : Route(s) /\ UNCHANGED aux
    \/ \E s \in CallIds, r \in GroqResults : GroqReturns(s, r) /\ UNCHANGED aux
    \/ \E s \in CallIds, e \in GroqErrors : GroqThrows(s, e) /\ UNCHANGED aux
    \/ \E s \in CallIds, r \in ClaudeResults : ClaudeReturns(s, r) /\ UNCHANGED aux
    \/ \E s \in CallIds, e \in ClaudeErrors : ClaudeThrows(s, e) /\ UNCHANGED aux
    \/ resetMetrics /\ UNCHANGED aux

Spec == Init /\ [][Next]_vars

\* The steps that settle the provider call a request is suspended at
GroqSettles(s) ==
    /\ \/ \E r \in GroqResults : GroqReturns(s, r)
       \/ \E e \in GroqErrors : GroqThrows(s, e)
    /\ UNCHANGED aux

ClaudeSettles(s) ==
    /\ \/ \E r \in ClaudeResults : ClaudeReturns(s, r)
       \/ \E e \in ClaudeErrors : ClaudeThrows(s, e)
    /\ UNCHANGED aux

\* The detector's promise resolves, and every provider call settles
Fairness ==
    \A s \in CallIds :
        /\ WF_vars(Route(s) /\ UNCHANGED aux)
        /\ WF_vars(GroqSettles(s))
        /\ WF_vars(ClaudeSettles(s))

\* The calls alone: no window is reset while they run
CallsNext ==
    \/ \E s \in CallIds, image \in Images :
            ExtractReceipt(s, image) /\ UNCHANGED aux
    \/ \E s \in CallIds : Route(s) /\ UNCHANGED aux
    \/ \E s \in CallIds, r \in GroqResults : GroqReturns(s, r) /\ UNCHANGED aux
    \/ \E s \in CallIds, e \in GroqErrors : GroqThrows(s, e) /\ UNCHANGED aux
    \/ \E s \in CallIds, r \in ClaudeResults : ClaudeReturns(s, r) /\ UNCHANGED aux
    \/ \E s \in CallIds, e \in ClaudeErrors : ClaudeThrows(s, e) /\ UNCHANGED aux

FairSpec == Init /\ [][CallsNext]_vars /\ Fairness

\* ------------------------------------------- calls made one after the other
\* A test body: a default-configured strategy whose calls are awaited one by
\* one, and a detector of either variant classifying an image directly.
\* The settings of maxGroqRetries that are compared
RetrySettings == {1, 3}

BatchInit ==
    /\ \E n \in RetrySettings :
            Constructed([DefaultConfig EXCEPT !.maxGroqRetries = n])
    /\ batch = <<>>
    /\ caller = NoSnapshot
    /\ det = NoFeatures
    /\ RestIdle

\* await strategy.extractReceipt(...): the previous call has settled
AwaitedExtractReceipt(s, image) ==
    /\ \A t \in CallIds : calls[t].pc \notin {"classify", "groq", "claude"}
    /\ ExtractReceipt(s, image)
    /\ batch' = Append(batch, image)
    /\ UNCHANGED <<caller, det, rest>>

\* await detector.classify(image), with the detector of the given variant
DetectorClassify(image, variant) ==
    /\ det.phase = "none"
    /\ LET f == IF variant = "length" THEN extractFeatures(image)
                ELSE extractFeaturesByName(image)
       IN  det' = [ phase |-> "verdict", image |-> image, variant |-> variant,
                    features |-> f, verdict |-> classifyFeatures(f) ]
    /\ UNCHANGED <<strategy, batch, caller, rest>>

BatchNext ==
    \/ \E s \in CallIds, image \in Images \cup MockImages :
            AwaitedExtractReceipt(s, image)
    \/ \E s \in CallIds : Route(s) /\ UNCHANGED aux
    \/ \E s \in CallIds, r \in GroqResults : GroqReturns(s, r) /\ UNCHANGED aux
    \/ \E s \in CallIds, e \in GroqErrors : GroqThrows(s, e) /\ UNCHANGED aux
    \/ \E s \in CallIds, r \in ClaudeResults : ClaudeReturns(s, r) /\ UNCHANGED aux
    \/ \E s \in CallIds, e \in ClaudeErrors : ClaudeThrows(s, e) /\ UNCHANGED aux
    \/ \E image \in Images \cup MockImages, variant \in {"length", "name"} :
            DetectorClassify(image, variant)

BatchSpec == BatchInit /\ [][BatchNext]_vars

\* --------------------------------------------------- a caller of getMetrics
\* Mutant: getMetrics hands out the strategy's own metrics object
MetricsHandleLive(m) == [ref |-> "live", value |-> m]

\* What getMetrics hands out: a fresh object holding the fields of m
MetricsHandle(m) == [ref |-> "copy", value |-> m]

\* What a caller's assignment to a field of a metrics object leaves in it
Scribble(m) == [m EXCEPT !.totalReceipts = @ + 1000]

\* Attempts recorded, and provider calls made, by all calls so far
RECURSIVE RecordedUpTo(_, _)
RecordedUpTo(c, n) ==
    IF n = 0 THEN 0
    ELSE RecordedUpTo(c, n - 1)
            + (IF c[n].pc = "idle" THEN 0 ELSE Len(c[n].log))

RECURSIVE InvokedUpTo(_, _)
InvokedUpTo(c, n) ==
    IF n = 0 THEN 0
    ELSE InvokedUpTo(c, n - 1)
            + (IF c[n].pc = "idle" THEN 0 ELSE Len(c[n].invoked))

\* The caller's view after a step of the strategy: it remembers whether an
\* attempt was recorded, and whether the strategy was written to at all,
\* since the metrics object it holds was returned.
Observed(c) ==
    IF ~c.held THEN c
    ELSE LET recorded == RecordedUpTo(calls', MaxCalls) # RecordedUpTo(calls, MaxCalls)
             routed   == InvokedUpTo(calls', MaxCalls) # InvokedUpTo(calls, MaxCalls)
         IN  [c EXCEPT !.recordedSince = @ \/ recorded,
                       !.touchedSince  = @ \/ recorded \/ routed
                                           \/ resets' # resets]

CallerInit ==
    /\ Constructed(DefaultConfig)
    /\ batch = <<>>
    /\ caller = NoSnapshot
    /\ det = NoFeatures
    /\ RestIdle

\* const m = strategy.getMetrics()
getMetrics ==
    /\ caller' = [ held |-> TRUE, handle |-> MetricsHandle(metrics),
                   returned |-> metrics, written |-> FALSE,
                   recordedSince |-> FALSE, touchedSince |-> FALSE ]
    /\ ~(caller.held /\ caller' = caller)
    /\ UNCHANGED <<strategy, batch, det, rest>>

\* m.totalReceipts = ...: the caller writes to the object it was handed
CallerWrites ==
    /\ caller.held /\ ~caller.written
    /\ IF caller.handle.ref = "live"
       THEN /\ metrics' = Scribble(metrics)
            /\ caller' = [caller EXCEPT !.written = TRUE]
       ELSE /\ metrics' = metrics
            /\ caller' = [caller EXCEPT !.written = TRUE,
                                        !.handle.value = Scribble(@)]
    /\ UNCHANGED <<config, attempts, calls, started, completed, resets,
                 batch, det, rest>>

CallerNext ==
    \/ \E s \in CallIds, image \in Images :
            /\ \A t \in CallIds : calls[t].pc \notin {"classify", "groq", "claude"}
            /\ ExtractReceipt(s, image)
            /\ UNCHANGED aux
    \/ \E s \in CallIds :
            Route(s) /\ caller' = Observed(caller) /\ UNCHANGED <<batch, det, rest>>
    \/ \E s \in CallIds, r \in GroqResults :
            GroqReturns(s, r) /\ caller' = Observed(caller) /\ UNCHANGED <<batch, det, rest>>
    \/ \E s \in CallIds, e \in GroqErrors :
            GroqThrows(s, e) /\ caller' = Observed(caller) /\ UNCHANGED <<batch, det, rest>>
    \/ \E s \in CallIds, r \in ClaudeResults :
            ClaudeReturns(s, r) /\ caller' = Observed(caller) /\ UNCHANGED <<batch, det, rest>>
    \/ \E s \in CallIds, e \in ClaudeErrors :
            ClaudeThrows(s, e) /\ caller' = Observed(caller) /\ UNCHANGED <<batch, det, rest>>
    \/ resetMetrics /\ caller' = Observed(caller) /\ UNCHANGED <<batch, det, rest>>
    \/ getMetrics
    \/ CallerWrites

CallerSpec == CallerInit /\ [][CallerNext]_vars

\* ------------------------------------- objects handed out by the strategy
\* getAttempts returns [...this.attempts]: a new array holding the very
\* Attempt objects of the history.  An object is named by its place in the
\* history, which only grows here.
getAttempts == [held |-> TRUE, array |-> [i \in 1..Len(attempts) |-> i]]

\* The place in the history of the Attempt that holds the result call s
\* returned: calls are awaited one by one, so it is the last one recorded up
\* to and including call s.
ResultPlace(s) == RecordedUpTo(calls, s)

\* result.confidence = 0, written by a caller
Overwritten(r) == [src |-> r.src, amountSatang |-> r.amountSatang, confidence |-> 0]

AliasInit ==
    /\ Constructed(DefaultConfig)
    /\ batch = <<>>
    /\ caller = NoSnapshot
    /\ det = NoFeatures
    /\ RestIdle

\* const history = strategy.getAttempts()
GetAttempts ==
    /\ lent' = getAttempts
    /\ UNCHANGED <<strategy, batch, caller, det, console, groqCall, claudeFactory>>

\* history.pop(): the caller changes the array it was handed
CallerWritesArray ==
    /\ lent.held
    /\ Len(lent.array) >= 1
    /\ lent' = [lent EXCEPT !.array = SubSeq(@, 1, Len(@) - 1)]
    /\ UNCHANGED <<strategy, batch, caller, det, console, groqCall, claudeFactory>>

\* history[i].success = false: the caller changes an Attempt of that array
CallerWritesAttempt(i) ==
    /\ lent.held
    /\ i \in 1..Len(lent.array)
    /\ attempts[lent.array[i]].success
    /\ attempts' = [attempts EXCEPT ![lent.array[i]].success = FALSE]
    /\ UNCHANGED <<config, metrics, calls, started, completed, resets, aux>>

\* result.confidence = 0: the caller changes the result extractReceipt
\* returned, which is the object the recorded Attempt holds
CallerWritesResult(s) ==
    /\ calls[s].pc = "returned"
    /\ calls[s].ret # Overwritten(calls[s].ret)
    /\ calls' = [calls EXCEPT ![s].ret = Overwritten(@)]
    /\ attempts' = [attempts EXCEPT ![ResultPlace(s)].result = Overwritten(@)]
    /\ UNCHANGED <<config, metrics, started, completed, resets, aux>>

AliasNext ==
    \/ \E s \in CallIds, image \in Images :
            /\ \A t \in CallIds : calls[t].pc \notin {"classify", "groq", "claude"}
            /\ ExtractReceipt(s, image)
            /\ UNCHANGED aux
    \/ \E s \in CallIds : Route(s) /\ UNCHANGED aux
    \/ \E s \in CallIds, r \in GroqResults : GroqReturns(s, r) /\ UNCHANGED aux
    \/ \E s \in CallIds, e \in GroqErrors : GroqThrows(s, e) /\ UNCHANGED aux
    \/ \E s \in CallIds, r \in ClaudeResults : ClaudeReturns(s, r) /\ UNCHANGED aux
    \/ \E s \in CallIds, e \in ClaudeErrors : ClaudeThrows(s, e) /\ UNCHANGED aux
    \/ GetAttempts
    \/ CallerWritesArray
    \/ \E i \in 1..(2 * MaxCalls) : CallerWritesAttempt(i)
    \/ \E s \in CallIds : CallerWritesResult(s)

AliasSpec == AliasInit /\ [][AliasNext]_vars

\* ------------------------------------------------------------ printMetrics
\* (n / d * 100).toFixed(0) for n >= 0: the text NaN or Infinity when d is 0,
\* else the percentage rounded to a whole number
Percent(n, d) ==
    IF d = 0
    THEN [text |-> IF n = 0 THEN "NaN" ELSE "Infinity"]
    ELSE [text |-> "number", n |-> (200 * n + d) \div (2 * d)]

\* The lines of printMetrics that divide
printMetrics(m) ==
    [ printed        |-> TRUE,
      totalReceipts  |-> m.totalReceipts,
      simplePercent  |-> Percent(m.simpleCount, m.totalReceipts),
      complexPercent |-> Percent(m.complexCount, m.totalReceipts),
      savingsPercent |-> Percent(m.savingsVsClaudeOnly,
                                 m.totalReceipts * ClaudeOnlyUnitCost) ]

ReportInit ==
    /\ Constructed(DefaultConfig)
    /\ batch = <<>>
    /\ caller = NoSnapshot
    /\ det = NoFeatures
    /\ RestIdle

\* strategy.printMetrics()
PrintMetrics ==
    /\ console' = printMetrics(metrics)
    /\ UNCHANGED <<strategy, batch, caller, det, lent, groqCall, claudeFactory>>

ReportNext ==
    \/ \E s \in CallIds, image \in Images :
            /\ \A t \in CallIds : calls[t].pc \notin {"classify", "groq", "claude"}
            /\ ExtractReceipt(s, image)
            /\ UNCHANGED aux
    \/ \E s \in CallIds : Route(s) /\ UNCHANGED aux
    \/ \E s \in CallIds, r \in GroqResults : GroqReturns(s, r) /\ UNCHANGED aux
    \/ \E s \in CallIds, e \in GroqErrors : GroqThrows(s, e) /\ UNCHANGED aux
    \/ \E s \in CallIds, r \in ClaudeResults : ClaudeReturns(s, r) /\ UNCHANGED aux
    \/ \E s \in CallIds, e \in ClaudeErrors : ClaudeThrows(s, e) /\ UNCHANGED aux
    \/ resetMetrics /\ UNCHANGED aux
    \/ PrintMetrics

ReportSpec == ReportInit /\ [][ReportNext]_vars

\* ------------------------------------------------- the adapters on their own
\* JSON values: a key that is absent, null, a number, a string
Absent == [t |-> "absent"]

Null == [t |-> "null"]

Num(n) == [t |-> "num", n |-> n]

Str(s) == [t |-> "str", s |-> s]

\* x ?? d and x || d
Coalesce(x, d) == IF x \in {Absent, Null} THEN d ELSE x

OrElse(x, d) == IF x \in {Absent, Null, Num(0), Str("")} THEN d ELSE x

\* What JSON.parse can make of the text of a reply: nothing (a syntax error),
\* null, a bare number, or an object with some of the keys asked for
ReplyObjects ==
    [ kind : {"object"},
      total_amount_satang : {Absent, Num(0), Num(8560)},
      vat_amount_satang   : {Absent, Null, Num(560)},
      vendor_name         : {Absent, Str("7-Eleven")},
      issue_date          : {Absent, Str("2026-01-22")},
      confidence          : {Absent, Num(0), Num(8800)} ]

ReplyTexts ==
    { [kind |-> "invalid"], [kind |-> "null"], [kind |-> "number"] }
        \cup ReplyObjects

\* choices[0].message.content: absent, the empty string, or a text that may
\* be wrapped in a ```json fence
Contents ==
    { [kind |-> "absent"], [kind |-> "empty"] }
        \cup [kind : {"text"}, fenced : BOOLEAN, json : ReplyTexts]

\* What fetch and response.json() can come to
Upstreams ==
    { [kind |-> "network error", message |-> "fetch failed"] }
        \cup [kind : {"response"}, ok : {FALSE}, status : {401, 429, 500}]
        \cup { [kind |-> "response", ok |-> TRUE, status |-> 200,
                body |-> "not json"] }
        \cup [kind : {"response"}, ok : {TRUE}, status : {200},
              body : {"json"}, content : Contents]

\* A thrown Error: its message, in parts
Thrown(parts) == [ok |-> FALSE, message |-> parts]

\* parsed.<name>: undefined unless parsed is an object that has the key
Field(parsed, name) == IF parsed.kind = "object" THEN parsed[name] ELSE Absent

\* parseResponse.  content || '{}' turns a missing or empty content into the
\* text of an empty object; stripping the fence leaves the JSON text; a bare
\* number has none of the keys; reading a key of null throws a TypeError.
parseResponse(data) ==
    LET parsed == IF data.content.kind \in {"absent", "empty"}
                  THEN [kind |-> "empty object"]
                  ELSE data.content.json
    IN  IF parsed.kind = "invalid"
        THEN Thrown(<<"Groq returned invalid JSON">>)
        ELSE IF parsed.kind = "null"
        THEN Thrown(<<"Cannot read properties of null">>)
        ELSE [ ok |-> TRUE,
               result |->
                 [ amountSatang    |-> OrElse(Field(parsed, "total_amount_satang"), Num(0)),
                   currency        |-> "THB",
                   vatAmountSatang |-> Coalesce(Field(parsed, "vat_amount_satang"), Null),
                   vendorName      |-> Coalesce(Field(parsed, "vendor_name"), Null),
                   issueDate       |-> Coalesce(Field(parsed, "issue_date"), Null),
                   rawText         |-> IF data.content.kind \in {"absent", "empty"}
                                       THEN [kind |-> "empty object"]
                                       ELSE data.content,
                   confidence      |-> Coalesce(Field(parsed, "confidence"), Num(7000)) ] ]

\* parseReceiptText: whatever is thrown inside the try is rethrown with the
\* prefix; a result is returned as parseResponse built it.
parseReceiptText(upstream) ==
    LET inner ==
            IF upstream.kind = "network error"
            THEN Thrown(<<upstream.message>>)
            ELSE IF ~upstream.ok
            THEN Thrown(<<"Groq API error: ", upstream.status>>)
            ELSE IF upstream.body = "not json"
            THEN Thrown(<<"Unexpected token">>)
            ELSE parseResponse(upstream)
    IN  IF inner.ok THEN inner
        ELSE Thrown(<<"Groq parsing failed: ">> \o inner.message)

\* The configurations createClaudeAdapter is called with
AppConfigs ==
    [ MODE : {"DEV", "PROD"},
      CLAUDE_API_KEY : {Absent, Str(""), Str("sk-ant-key")},
      LOG_LEVEL : {"debug", "error"} ]

\* Mutant: the constructor takes the key as it is
RealClaudeAdapterUnchecked(cfg) ==
    [ok |-> TRUE, adapter |-> [kind |-> "real", apiKey |-> cfg.CLAUDE_API_KEY]]

\* new RealClaudeAdapter(config)
RealClaudeAdapter(cfg) ==
    IF cfg.CLAUDE_API_KEY \in {Absent, Str("")}
    THEN Thrown(<<"CLAUDE_API_KEY",
                  " is required in PROD mode. Set it in .env or pass via config.">>)
    ELSE [ok |-> TRUE, adapter |-> [kind |-> "real", apiKey |-> cfg.CLAUDE_API_KEY]]

createClaudeAdapter(cfg) ==
    IF cfg.MODE = "DEV"
    THEN [ok |-> TRUE, adapter |-> [kind |-> "mock"]]
    ELSE RealClaudeAdapter(cfg)

AdapterInit ==
    /\ Constructed(DefaultConfig)
    /\ batch = <<>>
    /\ caller = NoSnapshot
    /\ det = NoFeatures
    /\ console = NoOutput
    /\ lent = NothingLent
    /\ groqCall \in [phase : {"called"}, upstream : Upstreams]
    /\ claudeFactory \in [phase : {"config"}, config : AppConfigs]

\* await groqAdapter.parseReceiptText(rawText, correlationId) settles
ParseReceiptText ==
    /\ groqCall.phase = "called"
    /\ groqCall' = [ phase |-> "settled", upstream |-> groqCall.upstream,
                     outcome |-> parseReceiptText(groqCall.upstream) ]
    /\ UNCHANGED <<strategy, batch, caller, det, console, lent, claudeFactory>>

\* createClaudeAdapter(config) returns or throws
CreateClaudeAdapter ==
    /\ claudeFactory.phase = "config"
    /\ claudeFactory' = [ phase |-> "created", config |-> claudeFactory.config,
                          outcome |-> createClaudeAdapter(claudeFactory.config),
                          requests |-> 0 ]
    /\ UNCHANGED <<strategy, batch, caller, det, console, lent, groqCall>>

\* adapter.extractReceiptFromImage(...) on the adapter that was created: the
\* real adapter sends a request carrying its key, the mock sends none
ExtractReceiptFromImage ==
    /\ claudeFactory.phase = "created"
    /\ claudeFactory.outcome.ok
    /\ claudeFactory.requests = 0
    /\ claudeFactory' = [claudeFactory EXCEPT !.requests =
            IF claudeFactory.outcome.adapter.kind = "real" THEN 1 ELSE 0,
            !.phase = "extracted"]
    /\ UNCHANGED <<strategy, batch, caller, det, console, lent, groqCall>>

AdapterNext ==
    \/ ParseReceiptText
    \/ CreateClaudeAdapter
    \/ ExtractReceiptFromImage

AdapterSpec == AdapterInit /\ [][AdapterNext]_vars

\* ------------------------------------------------- the detector on its own
\* Feature snapshots within the documented range 0-1.  On this grid every
\* product of calculateConfidence is a whole number of units.
FeatureSnapshots ==
    [ brightness        : {0, 4000, 5000, 6000, 7000, 8500, 10000},
      textDensity       : {0, 7000, 10000},
      hasStandardFormat : BOOLEAN,
      hasHandwriting    : BOOLEAN,
      hasFading         : BOOLEAN ]

DetInit ==
    /\ Constructed(DefaultConfig)
    /\ batch = <<>>
    /\ caller = NoSnapshot
    /\ det \in [phase : {"features"}, features : FeatureSnapshots]
    /\ RestIdle

\* classify, once extractFeatures has produced det.features
Classify ==
    /\ det.phase = "features"
    /\ det' = [ phase |-> "verdict", features |-> det.features,
                verdict |-> classifyFeatures(det.features) ]
    /\ UNCHANGED <<strategy, batch, caller, rest>>

DetNext == Classify

DetSpec == DetInit /\ [][DetNext]_vars

\* ------------------------------------------------------------------ claims
Settled(s) == calls[s].pc \in {"returned", "threw"}

InFlight(s) == calls[s].pc \in {"classify", "groq", "claude"}

\* The call's Groq call has just failed: it left the Groq call without a result
GroqFailedStep(s) ==
    calls[s].pc = "groq" /\ calls'[s].pc \notin {"groq", "returned"}

\* C1: a call is routed to Groq iff the verdict on its image is simple with
\* confidence >= simpleConfidenceThreshold; otherwise Claude is invoked
\* directly, complexCount grows by one, simpleCount stays, and the request
\* never invokes Groq nor records a groq attempt.
C1_DirectClaudeNeverGroq ==
    \A s \in CallIds :
        (calls[s].invoked # <<>> /\ calls[s].invoked[1] = "claude") =>
            /\ calls[s].invoked = <<"claude">>
            /\ \A i \in 1..Len(calls[s].log) : calls[s].log[i].provider # "groq"

C1_RouteStep ==
    \A s \in CallIds :
        (calls[s].pc = "classify" /\ calls'[s].pc # "classify") =>
            LET v == classify(calls[s].image)
            IN  IF v.isSimple /\ v.confidence >= config.simpleConfidenceThreshold
                THEN /\ calls'[s].pc = "groq"
                     /\ calls'[s].invoked = <<"groq">>
                ELSE /\ calls'[s].pc = "claude"
                     /\ calls'[s].invoked = <<"claude">>
                     /\ metrics'.complexCount = metrics.complexCount + 1
                     /\ metrics'.simpleCount = metrics.simpleCount
                     /\ attempts' = attempts

C1_GroqIffSimpleAndConfident ==
    []C1_DirectClaudeNeverGroq /\ [][C1_RouteStep]_vars

\* One call went straight to Claude and returned, another was routed to Groq
C1_Witness ==
    \E s, t \in CallIds :
        /\ calls[s].pc = "returned" /\ calls[s].invoked = <<"claude">>
        /\ calls[t].invoked # <<>> /\ calls[t].invoked[1] = "groq"
        /\ metrics.complexCount >= 1

\* C2: a Groq-routed request whose Groq call fails with fallback enabled records
\* exactly (groq, failed) then (claude), whatever the Claude call's outcome; a
\* successful Claude call gives the returned result, and the Groq success rate
\* is 0 when this is the only request.  (Stated for enableMetrics = TRUE.)
C2_FallbackRecordsTwoAttempts ==
    (config.enableMetrics /\ config.enableFallback) =>
        \A s \in CallIds :
            (Settled(s) /\ Len(calls[s].invoked) = 2) =>
                /\ Len(calls[s].log) = 2
                /\ calls[s].log[1].provider = "groq" /\ ~calls[s].log[1].success
                /\ calls[s].log[2].provider = "claude"
                /\ calls[s].pc = "returned" => calls[s].ret.src = "claude"
                /\ (started = 1 /\ resets = 0) => metrics.groqSuccessRate = Zero

\* C3 as stated: with fallback disabled, a failed Groq call leaves exactly one
\* Attempt (groq, success = false) recorded for the request.
C3_OneFailedAttemptRecorded ==
    ~config.enableFallback =>
        \A s \in CallIds :
            (calls[s].pc = "threw" /\ calls[s].invoked[1] = "groq") =>
                /\ Len(calls[s].log) = 1
                /\ calls[s].log[1].provider = "groq"
                /\ ~calls[s].log[1].success

\* C3 amended: with fallback disabled, a failed Groq call makes extractReceipt
\* throw the Groq error without invoking Claude and without changing
\* complexCount or claudeFallbackRate; the request has recorded exactly one
\* Attempt (groq, failed) when enableMetrics is true and none when it is false.
C3_ThrewAfterGroq ==
    ~config.enableFallback =>
        \A s \in CallIds :
            (calls[s].pc = "threw" /\ calls[s].invoked[1] = "groq") =>
                /\ calls[s].invoked = <<"groq">>
                /\ calls[s].err \in GroqErrors
                /\ calls[s].log =
                     IF config.enableMetrics
                     THEN << [provider |-> "groq", success |-> FALSE, cost |-> 0,
                              error |-> calls[s].err.message] >>
                     ELSE <<>>

C3_GroqFailsStep ==
    \A s \in CallIds :
        (GroqFailedStep(s) /\ ~config.enableFallback) =>
            /\ calls'[s].pc = "threw"
            /\ metrics'.complexCount = metrics.complexCount
            /\ metrics'.claudeFallbackRate = metrics.claudeFallbackRate

C3_NoFallbackGroqFailure ==
    []C3_ThrewAfterGroq /\ [][C3_GroqFailsStep]_vars

C3_Witness ==
    /\ ~config.enableFallback
    /\ config.enableMetrics
    /\ \E s \in CallIds :
        /\ calls[s].pc = "threw"
        /\ calls[s].invoked = <<"groq">>
        /\ Len(calls[s].log) = 1
        /\ attempts # <<>>

\* C4 as stated: a Groq-routed request whose Groq call succeeds has exactly one
\* Attempt (groq, success = true, carrying the result) recorded for it.
C4_OneSuccessAttemptRecorded ==
    \A s \in CallIds :
        (calls[s].pc = "returned" /\ calls[s].invoked[1] = "groq"
            /\ Len(calls[s].invoked) = 1) =>
                /\ Len(calls[s].log) = 1
                /\ calls[s].log[1].provider = "groq"
                /\ calls[s].log[1].success
                /\ calls[s].log[1].result = calls[s].ret

\* C4 amended: a Groq-routed request whose Groq call succeeds returns exactly
\* the Groq result without invoking Claude; it has recorded exactly one Attempt
\* (groq, success = true, cost 0.05, that result) when enableMetrics is true and
\* none when it is false.
C4_GroqSuccessStep ==
    \A s \in CallIds :
        (calls[s].pc = "groq" /\ calls'[s].pc = "returned") =>
            /\ calls'[s].ret \in GroqResults
            /\ calls'[s].invoked = <<"groq">>
            /\ calls'[s].log =
                 IF config.enableMetrics
                 THEN << [provider |-> "groq", success |-> TRUE, cost |-> GroqCost,
                          result |-> calls'[s].ret] >>
                 ELSE <<>>
            /\ config.enableMetrics => attempts' = Append(attempts, calls'[s].log[1])

C4_GroqSuccess == [][C4_GroqSuccessStep]_vars

C4_Witness ==
    /\ config.enableMetrics
    /\ \E s \in CallIds :
        /\ calls[s].pc = "returned"
        /\ calls[s].invoked = <<"groq">>
        /\ calls[s].ret \in GroqResults
        /\ Len(calls[s].log) = 1

\* C5: every extractReceipt call that has ended, by a result or by an error, has
\* appended at least one Attempt.  (Stated for enableMetrics = TRUE.)
C5_EveryCallRecordsAnAttempt ==
    config.enableMetrics =>
        \A s \in CallIds : Settled(s) => Len(calls[s].log) >= 1

\* C6: when the Groq call and then the fallback Claude call of one request both
\* fail, the error thrown to the caller is the Claude call's error.
C6_FallbackFailureIsClaudeError ==
    \A s \in CallIds :
        (calls[s].pc = "threw" /\ calls[s].invoked = <<"groq", "claude">>) =>
            calls[s].err \in ClaudeErrors

C6_Witness ==
    \E s \in CallIds :
        calls[s].pc = "threw" /\ calls[s].invoked = <<"groq", "claude">>

\* C7 as stated: under any configuration, no error delivered to the caller is a
\* Groq failure.
C7_GroqErrorNeverDelivered ==
    \A s \in CallIds : calls[s].pc = "threw" => calls[s].err \notin GroqErrors

\* C7 amended: with enableFallback true a Groq failure is never the error
\* delivered to the caller (a fallback absorbs it or the Claude failure
\* supersedes it); with enableFallback false the Groq failure is rethrown to the
\* caller.
C7_GroqErrorDeliveredIffNoFallback ==
    \A s \in CallIds :
        (calls[s].pc = "threw" /\ calls[s].invoked[1] = "groq") =>
            IF config.enableFallback
            THEN calls[s].err \notin GroqErrors /\ calls[s].invoked = <<"groq", "claude">>
            ELSE calls[s].err \in GroqErrors

\* One Groq failure absorbed by a fallback and one superseded by Claude's failure
C7_Witness ==
    /\ config.enableFallback
    /\ \E s, t \in CallIds :
        /\ calls[s].pc = "returned" /\ calls[s].invoked = <<"groq", "claude">>
        /\ calls[t].pc = "threw" /\ calls[t].invoked = <<"groq", "claude">>

\* C8: after N calls have completed since construction, totalReceipts = N; a
\* request that fell back adds exactly 1.  (Stated for enableMetrics = TRUE, no
\* reset, and every call so far having returned a result.)
C8_TotalReceiptsCountsRequests ==
    (/\ config.enableMetrics
     /\ resets = 0
     /\ \A s \in CallIds : calls[s].pc \in {"idle", "returned"}) =>
        metrics.totalReceipts = completed

\* C9: whenever no call is in flight, simpleCount + complexCount = totalReceipts.
\* (Stated for enableMetrics = TRUE and no reset.)
C9_RoutedCountsSumToTotal ==
    (/\ config.enableMetrics
     /\ resets = 0
     /\ \A s \in CallIds : ~InFlight(s)) =>
        metrics.simpleCount + metrics.complexCount = metrics.totalReceipts

\* C10: after every recorded Attempt the derived metrics equal their reference
\* formulas over the history.
RatEq(q, n, d) == q[2] > 0 /\ q[1] * d = n * q[2]

RefGroqIdx(att) == {i \in 1..Len(att) : att[i].provider = "groq"}

RefLowIdx(att) ==
    {i \in 1..Len(att) :
        /\ "result" \in DOMAIN att[i]
        /\ (IF "confidence" \in DOMAIN att[i].result
            THEN att[i].result.confidence ELSE 0) < ReviewThreshold}

C10_RecordStep ==
    Len(attempts') > Len(attempts) =>
        LET G == RefGroqIdx(attempts')
            S == {i \in G : attempts'[i].success}
            m == metrics'
        IN  /\ m.totalReceipts > 0
            /\ IF G = {} THEN m.groqSuccessRate = Zero
               ELSE RatEq(m.groqSuccessRate, Cardinality(S), Cardinality(G))
            /\ RatEq(m.avgCostPerReceipt, m.totalCost, m.totalReceipts)
            /\ m.savingsVsClaudeOnly = m.totalReceipts * ClaudeOnlyUnitCost - m.totalCost
            /\ RatEq(m.manualReviewRate, Cardinality(RefLowIdx(attempts')),
                     m.totalReceipts)

C10_DerivedMetricsMatchHistory == [][C10_RecordStep]_vars

\* A history with a failed and a successful Groq attempt and a Claude result
\* that carries no confidence
C10_Witness ==
    /\ \E i \in 1..Len(attempts) : attempts[i].provider = "groq" /\ ~attempts[i].success
    /\ \E i \in 1..Len(attempts) : attempts[i].provider = "groq" /\ attempts[i].success
    /\ \E i \in 1..Len(attempts) :
          /\ attempts[i].provider = "claude"
          /\ "confidence" \notin DOMAIN attempts[i].result
    /\ metrics.manualReviewRate # Zero
    /\ metrics.groqSuccessRate # Zero

\* C11: every Attempt in the history has a result and no error when it
\* succeeded, and an error description and no result when it failed.
C11_AttemptShape ==
    \A i \in 1..Len(attempts) :
        IF attempts[i].success
        THEN "result" \in DOMAIN attempts[i] /\ "error" \notin DOMAIN attempts[i]
        ELSE "result" \notin DOMAIN attempts[i] /\ "error" \in DOMAIN attempts[i]

C11_Witness ==
    /\ \E i \in 1..Len(attempts) : attempts[i].success
    /\ \E i \in 1..Len(attempts) : ~attempts[i].success

\* C12: between two resets the history only grows at its end (the history
\* before a step is a prefix of the history after it), totalReceipts equals
\* the number of attempts recorded, and totalCost never decreases.
IsPrefix(a, b) == Len(a) <= Len(b) /\ SubSeq(b, 1, Len(a)) = a

C12_Step ==
    resets' = resets =>
        /\ IsPrefix(attempts, attempts')
        /\ metrics'.totalReceipts = Len(attempts')
        /\ metrics'.totalCost >= metrics.totalCost

C12_HistoryAppendOnly == [][C12_Step]_vars

C12_Witness ==
    /\ Len(attempts) >= 3
    /\ metrics.totalReceipts = Len(attempts)
    /\ metrics.totalCost > 0

\* C14: a fresh strategy and a strategy right after resetMetrics are in the same
\* zero state: every count, cost and rate is 0 and the history is empty.
ZeroState ==
    /\ metrics.totalReceipts = 0
    /\ metrics.simpleCount = 0
    /\ metrics.complexCount = 0
    /\ metrics.groqSuccessRate = Zero
    /\ metrics.claudeFallbackRate = 0
    /\ metrics.totalCost = 0
    /\ metrics.avgCostPerReceipt = Zero
    /\ metrics.savingsVsClaudeOnly = 0
    /\ metrics.manualReviewRate = Zero
    /\ attempts = <<>>

C14_FreshAndResetAreZero ==
    ZeroState /\ [][resets' # resets => ZeroState']_vars

\* A reset has cleared a history that held the attempts of two settled calls
C14_Witness ==
    /\ resets >= 1
    /\ ZeroState
    /\ \A s \in CallIds : Settled(s) /\ Len(calls[s].log) >= 1

\* C15: with calls interleaving at their await points, totalReceipts is always
\* the length of the history and totalCost the sum of the recorded costs.
RECURSIVE SumCost(_)
SumCost(att) == IF att = <<>> THEN 0 ELSE att[1].cost + SumCost(Tail(att))

C15_RecordAttemptAtomic ==
    /\ metrics.totalReceipts = Len(attempts)
    /\ metrics.totalCost = SumCost(attempts)

\* The attempt of one call lies between the two attempts of another
C15_Witness ==
    \E s, t \in CallIds :
        /\ s # t
        /\ Len(attempts) = 3
        /\ Len(calls[s].log) = 2 /\ Len(calls[t].log) = 1
        /\ attempts = <<calls[s].log[1], calls[t].log[1], calls[s].log[2]>>
        /\ calls[t].log[1].provider = "groq" /\ calls[t].log[1].success

\* C16: for every feature snapshot, isSimple holds iff brightness exceeds the
\* brightness threshold (0.6) and the format is standard and there is neither
\* handwriting nor fading.
C16_SimpleIffAllFourConditions ==
    det.phase = "verdict" =>
        (det.verdict.isSimple <=>
            /\ det.features.brightness > BrightnessThreshold
            /\ det.features.hasStandardFormat
            /\ ~det.features.hasHandwriting
            /\ ~det.features.hasFading)

C16_Witness ==
    /\ det.phase = "verdict"
    /\ det.verdict.isSimple
    /\ det.features.brightness = 7000

\* C17: the confidence equals min(1, (0.4 brightness + 0.3 textDensity
\* + 0.3 [hasStandardFormat]) * (0.5 if handwriting) * (0.7 if fading)) and lies
\* in [0,1].  Both sides are scaled by 1000 so that nothing is rounded.
C17_ConfidenceFormula ==
    det.phase = "verdict" =>
        LET f   == det.features
            sum == 4 * f.brightness + 3 * f.textDensity
                     + (IF f.hasStandardFormat THEN 3 * One ELSE 0)
            ref == sum * (IF f.hasHandwriting THEN 5 ELSE 10)
                       * (IF f.hasFading THEN 7 ELSE 10)
            c   == det.verdict.confidence
        IN  /\ 0 <= c /\ c <= One
            /\ IF ref >= 1000 * One THEN c = One ELSE 1000 * c = ref

\* brightness 0.4, text density 0.7, handwritten and faded: 0.37 * 0.5 * 0.7
C17_Witness ==
    /\ det.phase = "verdict"
    /\ det.features.hasHandwriting /\ det.features.hasFading
    /\ det.verdict.confidence = 1295

\* Scenario A: the features of a bright standard-format receipt, and the
\* result the Groq mock returns for it
ScenarioAFeatures ==
    [ brightness |-> 8500, textDensity |-> 7000, hasStandardFormat |-> TRUE,
      hasHandwriting |-> FALSE, hasFading |-> FALSE ]

ScenarioAResult == [src |-> "groq", amountSatang |-> 8560, confidence |-> 8800]

\* The first call on a fresh strategy is for an image with scenario A's features
ScenarioA ==
    /\ Len(batch) = 1
    /\ extractFeatures(batch[1]) = ScenarioAFeatures

\* C18: an image with features {0.85, 0.7, standard, no handwriting, no fading}
\* is classified simple with confidence >= 0.85 and, under the default
\* threshold, is routed to Groq; when Groq returns amount 8560 with confidence
\* 0.88 the call returns that result with simpleCount 1 and complexCount 0.
C18_ScenarioARouted ==
    ScenarioA =>
        /\ classify(batch[1]).isSimple
        /\ classify(batch[1]).confidence >= DefaultSimpleConfidenceThreshold
        /\ calls[1].pc # "classify" => calls[1].invoked[1] = "groq"

C18_GroqReturnsStep ==
    ( /\ ScenarioA
      /\ calls[1].pc = "groq" /\ calls'[1].pc = "returned"
      /\ attempts' = <<GroqSuccessAttempt(ScenarioAResult)>> )
    => /\ calls'[1].ret = ScenarioAResult
       /\ metrics'.simpleCount = 1
       /\ metrics'.complexCount = 0

C18_ScenarioA == []C18_ScenarioARouted /\ [][C18_GroqReturnsStep]_vars

C18_Witness ==
    /\ ScenarioA
    /\ calls[1].pc = "returned"
    /\ calls[1].ret = ScenarioAResult
    /\ metrics.simpleCount = 1 /\ metrics.complexCount = 0

\* C19: classify on the mock string of a clear receipt
\* ('base64-clear-receipt-data-here') returns isSimple = true and
\* confidence > 0.8, under at least one of the two detector variants.
C19_ClearReceiptIsSimple ==
    (det.phase = "verdict" /\ det.image.name = "clear") =>
        \/ classify(det.image).isSimple /\ classify(det.image).confidence > 8000
        \/ classifyByName(det.image).isSimple
              /\ classifyByName(det.image).confidence > 8000

\* C20: after a batch of calls for 'mock-image-<i>' strings that all returned,
\* avgCostPerReceipt is below 0.50 and savingsVsClaudeOnly is above 0.
C20_BatchIsCheaper ==
    ( /\ Len(batch) >= 1
      /\ \A i \in 1..Len(batch) : batch[i] \in MockImages
      /\ \A s \in 1..Len(batch) : calls[s].pc = "returned" )
    => /\ metrics.avgCostPerReceipt[1]
              < ClaudeOnlyUnitCost * metrics.avgCostPerReceipt[2]
       /\ metrics.savingsVsClaudeOnly > 0

\* What the caller reads from the metrics object it holds
Held == IF caller.handle.ref = "live" THEN metrics ELSE caller.handle.value

\* A call of getMetrics returns, resp. the caller writes to the object it holds
GetMetricsStep == caller'.held /\ ~caller'.written /\ ~caller'.touchedSince
                     /\ strategy' = strategy

CallerWritesStep == caller.held /\ ~caller.written /\ caller'.held /\ caller'.written

C13_GetStep ==
    GetMetricsStep =>
        /\ metrics' = metrics /\ attempts' = attempts
        /\ caller'.returned = metrics
        /\ (caller.held /\ ~caller.touchedSince)
              => caller'.returned = caller.returned

C13_WriteStep == CallerWritesStep => metrics' = metrics /\ attempts' = attempts

C23_ClaudeFailureRecorded ==
    \A s \in CallIds :
        ( /\ config.enableMetrics
          /\ calls[s].pc = "threw"
          /\ calls[s].invoked[Len(calls[s].invoked)] = "claude" )
        => /\ Len(calls[s].log) >= 1
           /\ LET a == calls[s].log[Len(calls[s].log)]
              IN  /\ a.provider = "claude" /\ ~a.success
                  /\ "error" \in DOMAIN a /\ "result" \notin DOMAIN a

\* C28: with enableMetrics = false no call changes a metric field or the
\* history: the metrics stay all-zero and the history stays empty.
C28_DisabledMetricsStayZero ==
    ~config.enableMetrics => metrics = initMetrics /\ attempts = <<>>

\* C30: simpleCount + complexCount >= totalReceipts in every reachable state,
\* also when resetMetrics ran while a call was suspended at a provider call.
C30_RoutingCountsCoverReceipts ==
    metrics.simpleCount + metrics.complexCount >= metrics.totalReceipts

IsGroqInvocation(p) == p = "groq"

\* The call has fallen back to Claude after Groq failed
FellBack(s) ==
    /\ calls[s].pc # "idle"
    /\ Len(calls[s].invoked) >= 2
    /\ calls[s].invoked[Len(calls[s].invoked)] = "claude"

\* C21: a request whose Groq calls fail makes more Groq invocations before it
\* falls back with maxGroqRetries = 3 than with maxGroqRetries = 1.  A request
\* routed to Groq makes at least one Groq invocation whatever the setting, so
\* with the setting 3 it would have to make at least two.
C21_RetriesTakeEffect ==
    \A s \in CallIds :
        (config.maxGroqRetries = 3 /\ FellBack(s))
            => Len(SelectSeq(calls[s].invoked, IsGroqInvocation)) >= 2

\* The condition of evaluateSimplicity that a listed reason stands for has failed
ConditionFailed(f, r) ==
    CASE r = "low brightness"      -> ~(f.brightness > BrightnessThreshold)
      [] r = "non-standard format" -> ~f.hasStandardFormat
      [] r = "handwritten"         -> f.hasHandwriting
      [] r = "faded text"          -> f.hasFading
      [] OTHER                     -> FALSE

\* C25: a verdict that is not simple lists at least one failed condition and
\* only failed conditions; a simple verdict carries the fixed text.
C25_ReasonNamesFailedConditions ==
    det.phase = "verdict" =>
        LET v == det.verdict
        IN  IF v.isSimple
            THEN v.reason.text
                    = "Clear, standard format receipt - suitable for Groq parsing"
            ELSE /\ Len(v.reason.reasons) >= 1
                 /\ \A i \in 1..Len(v.reason.reasons) :
                        ConditionFailed(det.features, v.reason.reasons[i])

\* The provider invocations a request may have made, in order
InvocationOrders == { <<>>, <<"groq">>, <<"claude">>, <<"groq", "claude">> }

C24_InOrder ==
    \A s \in CallIds :
        calls[s].pc # "idle" =>
            /\ calls[s].invoked \in InvocationOrders
            /\ calls[s].pc = "classify" => calls[s].invoked = <<>>
            /\ calls[s].pc = "groq" => calls[s].invoked = <<"groq">>
            /\ calls[s].pc = "claude" =>
                  calls[s].invoked[Len(calls[s].invoked)] = "claude"

\* Invocations are only ever added at the end
C24_InvokeStep ==
    \A s \in CallIds :
        (calls[s].pc # "idle" /\ calls'[s].pc # "idle")
            => IsPrefix(calls[s].invoked, calls'[s].invoked)

C24_Settles == \A s \in CallIds : InFlight(s) ~> Settled(s)

\* C24: provided every provider call settles, every call returns or throws,
\* having invoked Groq at most once and Claude at most once, Groq before
\* Claude and nothing after Claude.
C24_TerminatesInOrder ==
    /\ []C24_InOrder
    /\ [][C24_InvokeStep]_vars
    /\ C24_Settles

C24_Witness ==
    \E s \in CallIds :
        /\ Settled(s)
        /\ calls[s].invoked = <<"groq", "claude">>

\* C22: with MODE 'DEV' createClaudeAdapter returns the mock adapter, key or
\* no key; with MODE 'PROD' and no key it throws an error naming
\* CLAUDE_API_KEY; no request is ever sent by a real adapter without a key.
C22_KeylessProdFailsAtCreation ==
    claudeFactory.phase \in {"created", "extracted"} =>
        LET cfg == claudeFactory.config
            out == claudeFactory.outcome
        IN  /\ cfg.MODE = "DEV" => out.ok /\ out.adapter.kind = "mock"
            /\ (cfg.MODE = "PROD" /\ cfg.CLAUDE_API_KEY \in {Absent, Str("")})
                  => /\ ~out.ok
                     /\ \E i \in 1..Len(out.message) : out.message[i] = "CLAUDE_API_KEY"
            /\ claudeFactory.requests > 0
                  => cfg.CLAUDE_API_KEY \notin {Absent, Str("")}

C22_Witness ==
    /\ claudeFactory.phase = "created"
    /\ claudeFactory.config.MODE = "PROD"
    /\ claudeFactory.config.CLAUDE_API_KEY = Absent
    /\ ~claudeFactory.outcome.ok

\* The result parseResponse builds from an object with none of the keys
DefaultedResult(r) ==
    /\ r.amountSatang = Num(0)
    /\ r.vatAmountSatang = Null
    /\ r.vendorName = Null
    /\ r.issueDate = Null
    /\ r.confidence = Num(7000)

\* C26: parseReceiptText returns a result or throws an error whose message
\* starts with 'Groq parsing failed:'; it throws when the upstream call errors
\* and when the reply carries no message content; it never returns the
\* defaulted result.
C26_ThrowsOrBuiltResult ==
    groqCall.phase = "settled" =>
        LET up  == groqCall.upstream
            out == groqCall.outcome
        IN  /\ ~out.ok => out.message[1] = "Groq parsing failed: "
            /\ (up.kind = "network error" \/ ~up.ok) => ~out.ok
            /\ (up.kind = "response" /\ up.ok /\ up.body = "json"
                   /\ up.content.kind \in {"absent", "empty"}) => ~out.ok
            /\ out.ok => ~DefaultedResult(out.result)

\* C27: whenever printMetrics runs with totalReceipts = 0 it prints 0 for the
\* simple, complex and savings percentages.
C27_ZeroReceiptsPrintZero ==
    (console.printed /\ console.totalReceipts = 0) =>
        /\ console.simplePercent = [text |-> "number", n |-> 0]
        /\ console.complexPercent = [text |-> "number", n |-> 0]
        /\ console.savingsPercent = [text |-> "number", n |-> 0]

\* The Attempts as they were recorded by calls 1..n, in order
RECURSIVE LogsUpTo(_, _)
LogsUpTo(c, n) ==
    IF n = 0 THEN <<>>
    ELSE LogsUpTo(c, n - 1) \o (IF c[n].pc = "idle" THEN <<>> ELSE c[n].log)

\* C29: whatever callers do with the objects handed to them, the stored
\* history is the Attempts as they were recorded, and groqSuccessRate and
\* manualReviewRate are the rates of the Attempts as they were recorded.
C29_BookkeepingUntouched ==
    LET recorded == LogsUpTo(calls, MaxCalls)
    IN  /\ attempts = recorded
        /\ metrics.groqSuccessRate = updateMetrics(metrics, recorded).groqSuccessRate
        /\ metrics.manualReviewRate = updateMetrics(metrics, recorded).manualReviewRate

====
